---------------------------- MODULE Spec2Model ----------------------------
(***************************************************************************)
(* A model of the GitHub/Jira timesheet agent:                             *)
(*   src/src/servers/github_server.py  fetch_github_activity               *)
(*   src/src/servers/jira_server.py    fetch_jira_issues                   *)
(*   src/src/servers/excel_server.py   the workbook tools                  *)
(*   src/src/client.py                 batch_enrich_commits and the nodes  *)
(*                                                                         *)
(* Text is a tuple of one-character strings, a calendar date is a day      *)
(* number, and the workbook is a record of its sheets.                     *)
(***************************************************************************)
EXTENDS Integers, Sequences, FiniteSets, TLC

VARIABLES
    idm,      \* one evaluation of the identity match of fetch_github_activity
    fetch,    \* one call of fetch_github_activity (the branch traversal)
    enrich,   \* one call of batch_enrich_commits
    file,     \* the Excel workbook on disk
    tool,     \* the last call of an excel_server tool and what it returned
    run       \* one run of the graph github -> jira -> reporter

vars == <<idm, fetch, enrich, file, tool, run>>

(***************************************************************************)
(* Bounds of the model.                                                    *)
(***************************************************************************)
MaxNameLen == 2
MaxBranches == 2
MaxBranchLen == 2
MaxEnrichCommits == 21
MaxDate == 2
MaxCommits == 2
MaxDays == 2
MaxReadDate == 3
MaxWorklogs == 4
MaxVisits == 4

(***************************************************************************)
(* Text.                                                                   *)
(***************************************************************************)
Alphabet == {"a", "A", "b"}

\* str.lower() on one character
LowerChar(c) ==
    CASE c = "A" -> "a" [] c = "B" -> "b" [] c = "C" -> "c" [] c = "D" -> "d"
      [] c = "E" -> "e" [] c = "F" -> "f" [] c = "G" -> "g" [] c = "H" -> "h"
      [] c = "I" -> "i" [] c = "J" -> "j" [] c = "K" -> "k" [] c = "L" -> "l"
      [] c = "M" -> "m" [] c = "N" -> "n" [] c = "O" -> "o" [] c = "P" -> "p"
      [] c = "Q" -> "q" [] c = "R" -> "r" [] c = "S" -> "s" [] c = "T" -> "t"
      [] c = "U" -> "u" [] c = "V" -> "v" [] c = "W" -> "w" [] c = "X" -> "x"
      [] c = "Y" -> "y" [] c = "Z" -> "z" [] OTHER -> c

\* str.lower()
Lower(s) == [i \in 1..Len(s) |-> LowerChar(s[i])]

\* Python's `needle in hay` on str: some slice of hay equals needle
Contains(hay, needle) ==
    \E i \in 0..(Len(hay) - Len(needle)) :
        SubSeq(hay, i + 1, i + Len(needle)) = needle

\* every text of at most n characters
TextUpTo(n) == UNION {[1..k -> Alphabet] : k \in 0..n}

\* every non-empty text of at most n characters (an account login is never empty)
LoginUpTo(n) == UNION {[1..k -> Alphabet] : k \in 1..n}

\* an optional text: None, or a str (possibly empty)
None == [present |-> FALSE, text |-> <<>>]
Some(t) == [present |-> TRUE, text |-> t]
Optional(S) == {None} \cup {Some(t) : t \in S}

\* Python truthiness of an optional str: None and "" are falsy
Truthy(o) == o.present /\ o.text # <<>>

(***************************************************************************)
(* fetch_github_activity: the identity match (github_server.py 47-62).     *)
(* login is c.author.login (None when the commit is linked to no account), *)
(* name is c.commit.author.name.                                           *)
(***************************************************************************)
\* the match with the substring test in one direction only
IsMatchOneWay(username, login, name) ==
    IF login.present /\ Lower(login.text) = Lower(username)
    THEN TRUE
    ELSE IF Truthy(name)
         THEN Contains(Lower(name.text), Lower(username))
         ELSE FALSE

\* the match with the truthiness test of the author name left out
IsMatchNoNameGuard(username, login, name) ==
    IF login.present /\ Lower(login.text) = Lower(username)
    THEN TRUE
    ELSE \/ Contains(Lower(name.text), Lower(username))
         \/ Contains(Lower(username), Lower(name.text))

IsMatch(username, login, name) ==
    IF login.present /\ Lower(login.text) = Lower(username)
    THEN TRUE
    ELSE IF Truthy(name)
         THEN LET author_name == Lower(name.text)
                  target_user == Lower(username)
              IN  \/ Contains(author_name, target_user)
                  \/ Contains(target_user, author_name)
         ELSE FALSE

IdleIdm == [pc |-> "idle"]
IdleFetch == [pc |-> "idle"]
IdleEnrich == [pc |-> "idle"]
IdleFile == [exists |-> FALSE]
IdleTool == [name |-> "none"]
IdleRun == [pc |-> "idle"]

\* the inputs of one evaluation of the match
InitMatch ==
    /\ idm \in [pc : {"call"}, username : TextUpTo(MaxNameLen),
                login : Optional(LoginUpTo(MaxNameLen)),
                name : Optional(TextUpTo(MaxNameLen)), is_match : {FALSE}]
    /\ fetch = IdleFetch
    /\ enrich = IdleEnrich
    /\ file = IdleFile
    /\ tool = IdleTool
    /\ run = IdleRun

\* lines 47-62 for one commit
Match ==
    /\ idm.pc = "call"
    /\ idm' = [idm EXCEPT !.pc = "done",
                          !.is_match = IsMatch(idm.username, idm.login, idm.name)]
    /\ UNCHANGED <<fetch, enrich, file, tool, run>>

NextMatch == Match

SpecMatch == InitMatch /\ [][NextMatch]_vars

(***************************************************************************)
(* C3: the match is true exactly when the account login equals the         *)
(* username ignoring case, or the author name is non-empty and, ignoring   *)
(* case, one of username and author name is a substring of the other.      *)
(***************************************************************************)
C3_MatchCharacterised ==
    idm.pc = "done" =>
        (idm.is_match <=>
            \/ (idm.login.present /\ Lower(idm.login.text) = Lower(idm.username))
            \/ /\ idm.name.present
               /\ Len(idm.name.text) > 0
               /\ \/ Contains(Lower(idm.name.text), Lower(idm.username))
                  \/ Contains(Lower(idm.username), Lower(idm.name.text)))

\* author name "a" inside username "Ab" only after lower-casing: matched,
\* with no linked account
C3_Witness ==
    /\ idm.pc = "done"
    /\ ~idm.login.present
    /\ idm.is_match
    /\ idm.username = <<"A", "b">>
    /\ idm.name = Some(<<"a">>)

(***************************************************************************)
(* C4 as claimed: a commit whose author name is empty or missing is never  *)
(* matched, whatever its linked account login.                             *)
(***************************************************************************)
C4_EmptyNameNeverMatches ==
    (idm.pc = "done" /\ ~Truthy(idm.name)) => ~idm.is_match

(***************************************************************************)
(* C4 as amended: a commit whose author name is empty or missing is        *)
(* matched only when its linked account login equals the username ignoring *)
(* case; without such a login it is never matched.                         *)
(***************************************************************************)
C4_EmptyNameMatchesOnlyByLogin ==
    (idm.pc = "done" /\ ~Truthy(idm.name)) =>
        (idm.is_match <=>
            (idm.login.present /\ Lower(idm.login.text) = Lower(idm.username)))

\* an empty author name, a login that differs from the username: no match
C4_Witness ==
    /\ idm.pc = "done"
    /\ idm.name = Some(<<>>)
    /\ idm.login = Some(<<"b">>)
    /\ idm.username = <<"a">>
    /\ ~idm.is_match


(***************************************************************************)
(* fetch_github_activity: the branch traversal (github_server.py 19-92).   *)
(*                                                                         *)
(* The repository holds three commits.  ShaA and ShaB differ only in their *)
(* last character, past the prefix the entries keep.  Three fields of the  *)
(* state record the history of the call and are read by no action:         *)
(* appended (the c.sha of every commit appended to user_commits), raised   *)
(* (the branches whose traversal ended in the except of line 72) and trail *)
(* (the commits visited at line 42, each with the branch it was visited    *)
(* from, in order).                                                        *)
(***************************************************************************)
ShaPrefixLen == 7

ShaA == <<"a", "b", "c", "d", "e", "f", "0", "1">>
ShaB == <<"a", "b", "c", "d", "e", "f", "0", "2">>
ShaC == <<"1", "2", "3", "4", "5", "6", "7", "8">>
Shas == {ShaA, ShaB, ShaC}

\* what the API returns for the commit: c.author.login, c.commit.author.name,
\* c.commit.author.date (as a day number), c.commit.message
CommitInfo(sha) ==
    CASE sha = ShaA -> [login |-> Some(<<"a">>), name |-> Some(<<"A", "b">>),
                        date |-> 1, message |-> <<"f", "i", "x">>]
      [] sha = ShaB -> [login |-> None, name |-> Some(<<"a">>),
                        date |-> 1, message |-> <<"a", "d", "d">>]
      [] OTHER      -> [login |-> Some(<<"b">>), name |-> Some(<<"b">>),
                        date |-> 2, message |-> <<"d", "o", "c">>]

\* c.sha[:7]
ShortSha(sha) == SubSeq(sha, 1, ShaPrefixLen)

\* the sequences over S of length at most n in which no element repeats
\* (the history of one branch lists a commit once)
DistinctSeqs(S, n) ==
    UNION {{q \in [1..k -> S] : \A i, j \in 1..k : q[i] = q[j] => i = j} : k \in 0..n}

BranchNames == <<"main", "dev", "feat", "fix", "tmp">>

\* the branch lists: branch k is named BranchNames[k] and has its own history
BranchLists ==
    UNION {[1..k -> DistinctSeqs(Shas, MaxBranchLen)] : k \in 0..MaxBranches}

\* line 42: commit c of the branch is visited
Visit(sha, branch) == [sha |-> sha, branch |-> branch]

\* the entry with the default branch as its branch_context
EntryOfDefaultBranch(sha, branch) ==
    [date |-> CommitInfo(sha).date,
     author |-> CommitInfo(sha).name,
     message |-> CommitInfo(sha).message,
     sha |-> ShortSha(sha),
     branch_context |-> BranchNames[1]]

\* lines 65-71: the entry appended for a matching commit
Entry(sha, branch) ==
    [date |-> CommitInfo(sha).date,
     author |-> CommitInfo(sha).name,
     message |-> CommitInfo(sha).message,
     sha |-> ShortSha(sha),
     branch_context |-> BranchNames[branch]]

\* lines 80-85: the entry appended for a commit of the default branch
MainEntry(sha) ==
    [date |-> CommitInfo(sha).date,
     author |-> CommitInfo(sha).name,
     message |-> CommitInfo(sha).message,
     sha |-> ShortSha(sha)]

\* the call and its inputs: the token, the repository and its branches
InitFetch ==
    /\ fetch \in [pc : {"start"}, username : {<<"a">>, <<"b">>},
                  branches : BranchLists,
                  b : {1}, i : {1},
                  seen_hashes : {{}}, user_commits : {<<>>}, main_commits : {<<>>},
                  appended : {<<>>}, visits : {0}, raised : {{}}, trail : {<<>>},
                  error : {FALSE}]
    /\ idm = IdleIdm
    /\ enrich = IdleEnrich
    /\ file = IdleFile
    /\ tool = IdleTool
    /\ run = IdleRun

\* lines 19-37: the token is read, the repository is looked up and its
\* branches are listed
FetchStart ==
    /\ fetch.pc = "start"
    /\ fetch' = [fetch EXCEPT !.pc = "scan"]
    /\ UNCHANGED <<idm, enrich, file, tool, run>>

\* lines 20-21 and 91-92: no token, or the lookup raises: {"error": ...}
FetchError ==
    /\ fetch.pc = "start"
    /\ fetch' = [fetch EXCEPT !.pc = "done", !.error = TRUE]
    /\ UNCHANGED <<idm, enrich, file, tool, run>>

\* lines 42-71 for the next commit c of the current branch
FetchVisit ==
    /\ fetch.pc = "scan"
    /\ fetch.b <= Len(fetch.branches)
    /\ fetch.i <= Len(fetch.branches[fetch.b])
    /\ LET sha == fetch.branches[fetch.b][fetch.i]
           c == CommitInfo(sha)
       IN  IF sha \in fetch.seen_hashes
           THEN fetch' = [fetch EXCEPT !.i = @ + 1, !.visits = @ + 1,
                                       !.trail = Append(@, Visit(sha, fetch.b))]
           ELSE IF IsMatch(fetch.username, c.login, c.name)
                THEN fetch' = [fetch EXCEPT
                                 !.i = @ + 1, !.visits = @ + 1,
                                 !.trail = Append(@, Visit(sha, fetch.b)),
                                 !.seen_hashes = @ \cup {sha},
                                 !.user_commits = Append(@, Entry(sha, fetch.b)),
                                 !.appended = Append(@, sha)]
                ELSE fetch' = [fetch EXCEPT
                                 !.i = @ + 1, !.visits = @ + 1,
                                 !.trail = Append(@, Visit(sha, fetch.b)),
                                 !.seen_hashes = @ \cup {sha}]
    /\ UNCHANGED <<idm, enrich, file, tool, run>>

\* lines 41-42 and 72-74: listing the commits of the current branch raises
\* (a protected or empty branch, a failed page request); the branch is skipped
FetchRaiseListing ==
    /\ fetch.pc = "scan"
    /\ fetch.b <= Len(fetch.branches)
    /\ fetch' = [fetch EXCEPT !.b = @ + 1, !.i = 1, !.raised = @ \cup {fetch.b}]
    /\ UNCHANGED <<idm, enrich, file, tool, run>>

\* lines 43-71 and 72-74: reading a field of commit c raises after its sha was
\* recorded at line 44; the rest of the branch is skipped
FetchRaiseProcessing ==
    /\ fetch.pc = "scan"
    /\ fetch.b <= Len(fetch.branches)
    /\ fetch.i <= Len(fetch.branches[fetch.b])
    /\ fetch.branches[fetch.b][fetch.i] \notin fetch.seen_hashes
    /\ fetch' = [fetch EXCEPT
                   !.b = @ + 1, !.i = 1, !.visits = @ + 1,
                   !.trail = Append(@, Visit(fetch.branches[fetch.b][fetch.i], fetch.b)),
                   !.raised = @ \cup {fetch.b},
                   !.seen_hashes = @ \cup {fetch.branches[fetch.b][fetch.i]}]
    /\ UNCHANGED <<idm, enrich, file, tool, run>>

\* line 39: the commits of the current branch are exhausted
FetchNextBranch ==
    /\ fetch.pc = "scan"
    /\ fetch.b <= Len(fetch.branches)
    /\ fetch.i > Len(fetch.branches[fetch.b])
    /\ fetch' = [fetch EXCEPT !.b = @ + 1, !.i = 1]
    /\ UNCHANGED <<idm, enrich, file, tool, run>>

\* lines 76-89: the history of the default branch (the first one), or none of
\* it when listing it raises
FetchMain ==
    /\ fetch.pc = "scan"
    /\ fetch.b > Len(fetch.branches)
    /\ \E ok \in BOOLEAN :
         fetch' = [fetch EXCEPT
                     !.pc = "done",
                     !.main_commits =
                         IF ok /\ Len(fetch.branches) > 0
                         THEN [k \in 1..Len(fetch.branches[1]) |->
                                  MainEntry(fetch.branches[1][k])]
                         ELSE <<>>]
    /\ UNCHANGED <<idm, enrich, file, tool, run>>

NextFetch ==
    \/ FetchStart
    \/ FetchError
    \/ FetchVisit
    \/ FetchRaiseListing
    \/ FetchRaiseProcessing
    \/ FetchNextBranch
    \/ FetchMain

SpecFetch == InitFetch /\ [][NextFetch]_vars

\* no element of the sequence occurs twice
NoRepeat(q) == \A i, j \in 1..Len(q) : q[i] = q[j] => i = j

(***************************************************************************)
(* C2 as claimed: user_commits holds at most one entry per commit, the sha *)
(* fields of its entries are pairwise distinct, and it is never longer     *)
(* than the number of commit visits.                                       *)
(***************************************************************************)
C2_OneEntryPerCommitDistinctSha ==
    fetch.pc \in {"scan", "done"} =>
        /\ NoRepeat(fetch.appended)
        /\ \A i, j \in 1..Len(fetch.user_commits) :
              fetch.user_commits[i].sha = fetch.user_commits[j].sha => i = j
        /\ Len(fetch.user_commits) <= fetch.visits


\* the branches whose traversal ran to its end
Completed == {b \in 1..Len(fetch.branches) : b \notin fetch.raised}

\* the commits of the target user in the history of branch b
UserCommitsOf(b) ==
    {sha \in {fetch.branches[b][k] : k \in 1..Len(fetch.branches[b])} :
        IsMatch(fetch.username, CommitInfo(sha).login, CommitInfo(sha).name)}

(***************************************************************************)
(* C16 as claimed: when the call returns its data package, every commit of *)
(* the target user in the history of a branch whose traversal ran to its   *)
(* end without raising was appended to user_commits exactly once, whatever *)
(* other branches raised while their commits were listed or processed.     *)
(***************************************************************************)
C16_FailureLosesOnlyItsOwnBranch ==
    (fetch.pc = "done" /\ ~fetch.error) =>
        \A b \in Completed :
            \A sha \in UserCommitsOf(b) :
                Cardinality({j \in 1..Len(fetch.appended) : fetch.appended[j] = sha}) = 1

\* the position in the trail of the first visit of the commit
FirstVisit(sha) ==
    CHOOSE t \in 1..Len(fetch.trail) :
        /\ fetch.trail[t].sha = sha
        /\ \A u \in 1..(t - 1) : fetch.trail[u].sha # sha

(***************************************************************************)
(* C17: at every point of the traversal, user_commits holds one entry per  *)
(* appended commit; the branch_context of the entry is the name of the     *)
(* branch the commit was first visited from, however many later branches   *)
(* reach it; and the entries stand in the order of these first visits.     *)
(***************************************************************************)
C17_FirstVisitWins ==
    fetch.pc \in {"scan", "done"} =>
        /\ Len(fetch.user_commits) = Len(fetch.appended)
        /\ NoRepeat(fetch.appended)
        /\ \A j \in 1..Len(fetch.appended) :
              /\ \E t \in 1..Len(fetch.trail) : fetch.trail[t].sha = fetch.appended[j]
              /\ fetch.user_commits[j].branch_context
                   = BranchNames[fetch.trail[FirstVisit(fetch.appended[j])].branch]
        /\ \A j, k \in 1..Len(fetch.appended) :
              j < k => FirstVisit(fetch.appended[j]) < FirstVisit(fetch.appended[k])

\* for the username "a", ShaA is visited from main and again from dev, after
\* ShaB: its entry keeps main, and stands before the entry of ShaB
C17_Witness ==
    /\ fetch.pc = "done"
    /\ fetch.username = <<"a">>
    /\ fetch.branches = <<<<ShaA>>, <<ShaB, ShaA>>>>
    /\ fetch.visits = 3
    /\ Len(fetch.user_commits) = 2
    /\ fetch.user_commits[1].branch_context = "main"
    /\ fetch.user_commits[2].branch_context = "dev"

(***************************************************************************)
(* The seen-set filter of fetch_github_activity on its own (lines 33,      *)
(* 42-44), run over one list of commits and then over the commits it kept. *)
(* A commit is named by its c.sha; given is the list the first traversal   *)
(* was handed, first the commits it kept.                                  *)
(***************************************************************************)
\* a seen set that outlives the traversal it was built in
SeenHashesKept(previous) == previous

\* line 33: every traversal starts from an empty set
SeenHashesAtStart(previous) == {}

InitDedup ==
    /\ \E commits \in UNION {[1..k -> Shas] : k \in 0..MaxVisits} :
         fetch = [pc |-> "filter", given |-> commits, commits |-> commits, i |-> 1,
                  seen_hashes |-> {}, kept |-> <<>>, pass |-> 1, first |-> <<>>]
    /\ idm = IdleIdm
    /\ enrich = IdleEnrich
    /\ file = IdleFile
    /\ tool = IdleTool
    /\ run = IdleRun

\* lines 42-44 for the next commit: a sha already seen is skipped, a new
\* one is recorded and the commit goes on
DedupVisit ==
    /\ fetch.pc = "filter"
    /\ fetch.i <= Len(fetch.commits)
    /\ LET sha == fetch.commits[fetch.i]
       IN  IF sha \in fetch.seen_hashes
           THEN fetch' = [fetch EXCEPT !.i = @ + 1]
           ELSE fetch' = [fetch EXCEPT !.i = @ + 1,
                                       !.seen_hashes = @ \cup {sha},
                                       !.kept = Append(@, sha)]
    /\ UNCHANGED <<idm, enrich, file, tool, run>>

\* the first traversal is over: the commits it kept are traversed again
DedupAgain ==
    /\ fetch.pc = "filter"
    /\ fetch.i > Len(fetch.commits)
    /\ fetch.pass = 1
    /\ fetch' = [fetch EXCEPT !.commits = fetch.kept, !.i = 1,
                                !.seen_hashes = SeenHashesAtStart(@),
                                !.first = fetch.kept, !.kept = <<>>, !.pass = 2]
    /\ UNCHANGED <<idm, enrich, file, tool, run>>

\* the second traversal is over
DedupDone ==
    /\ fetch.pc = "filter"
    /\ fetch.i > Len(fetch.commits)
    /\ fetch.pass = 2
    /\ fetch' = [fetch EXCEPT !.pc = "filtered"]
    /\ UNCHANGED <<idm, enrich, file, tool, run>>

NextDedup ==
    \/ DedupVisit
    \/ DedupAgain
    \/ DedupDone

SpecDedup == InitDedup /\ [][NextDedup]_vars

(***************************************************************************)
(* C15: the commits the seen-set filter keeps, traversed again by the same *)
(* filter as one list, are all kept: the second output holds the same      *)
(* commits as the first, none dropped and none added.                      *)
(***************************************************************************)
C15_DedupIdempotent ==
    fetch.pc = "filtered" =>
        /\ {fetch.kept[j] : j \in 1..Len(fetch.kept)}
           = {fetch.first[j] : j \in 1..Len(fetch.first)}
        /\ Len(fetch.kept) = Len(fetch.first)

\* the list ShaA, ShaB, ShaA, ShaC loses its second ShaA in the first
\* traversal and nothing in the second
C15_Witness ==
    /\ fetch.pc = "filtered"
    /\ fetch.given = <<ShaA, ShaB, ShaA, ShaC>>
    /\ fetch.first = <<ShaA, ShaB, ShaC>>
    /\ fetch.kept = <<ShaA, ShaB, ShaC>>


(***************************************************************************)
(* batch_enrich_commits (client.py 64-89).                                 *)
(*                                                                         *)
(* The commit at position k carries the message "fix k", so that the order *)
(* of the returned list can be read off it.  The text generator answers a  *)
(* batch with any number of lines, or raises.                              *)
(***************************************************************************)
batch_size == 20

Digits == <<"0", "1", "2", "3", "4", "5", "6", "7", "8", "9">>

\* str(k) for 0 <= k <= 99
NumText(k) ==
    IF k < 10 THEN <<Digits[k + 1]>> ELSE <<Digits[(k \div 10) + 1], Digits[(k % 10) + 1]>>

\* c['message'] of the commit at position k of the input
MessageAt(k) == <<"f", "i", "x", " ">> \o NumText(k)

\* line.split(". ", 1)[-1]: the text after the first ". ", or the whole line
AfterDotSpace(line) ==
    LET hits == {i \in 1..(Len(line) - 1) : line[i] = "." /\ line[i + 1] = " "}
    IN  IF hits = {}
        THEN line
        ELSE LET first == CHOOSE i \in hits : \A j \in hits : i <= j
             IN  SubSeq(line, first + 2, Len(line))

\* str.strip(): leading and trailing blanks removed
Strip(t) ==
    LET inked == {i \in 1..Len(t) : t[i] # " "}
    IN  IF inked = {}
        THEN <<>>
        ELSE SubSeq(t, CHOOSE i \in inked : \A j \in inked : i <= j,
                       CHOOSE i \in inked : \A j \in inked : i >= j)

\* the kinds of line the generator writes for item number k of a batch:
\* a numbered sentence, a numbered text of at most 5 characters, a sentence
\* without number, an empty line
LineKinds == {"sentence", "short", "bare", "empty"}

LineOf(kind, k) ==
    CASE kind = "sentence" -> NumText(k) \o <<".", " ", "D", "o", "n", "e", " ">> \o NumText(k)
      [] kind = "short"    -> NumText(k) \o <<".", " ", "o", "k">>
      [] kind = "bare"     -> <<" ", "R", "e", "w", "o", "r", "k", "e", "d", " ">>
      [] OTHER             -> <<>>

\* res.content.strip().split('\n'): at least one line, here count lines whose
\* kinds alternate between odd and even
Lines(count, odd, even) ==
    [k \in 1..count |-> LineOf(IF k % 2 = 1 THEN odd ELSE even, k)]

\* what llm.ainvoke does for a batch of n commits: it raises, or it returns
\* between 1 and n + 1 lines
OutcomesOf(n, kinds) ==
    {[raised |-> TRUE, lines |-> <<>>]}
    \cup {[raised |-> FALSE, lines |-> Lines(count, odd, even)] :
             count \in 1..(n + 1), odd \in kinds, even \in kinds}

Outcomes(n) == OutcomesOf(n, LineKinds)

\* lines 79-82 with the original message dropped when no line is usable
SummaryNoFallback(message, idx, lines) ==
    IF idx < Len(lines)
    THEN Strip(AfterDotSpace(lines[idx + 1]))
    ELSE <<>>

\* lines 79-82: the summary of the commit at position idx (from 0) of a batch
Summary(message, idx, lines) ==
    LET clean == Strip(AfterDotSpace(lines[idx + 1]))
    IN  IF idx < Len(lines) /\ Len(clean) > 5 THEN clean ELSE message

\* lines 75-88 for one batch: every commit of it gets an ai_summary
EnrichedBatch(batch, outcome) ==
    IF outcome.raised
    THEN [k \in 1..Len(batch) |->
             [batch[k] EXCEPT !.ai_summary = Some(batch[k].message)]]
    ELSE [k \in 1..Len(batch) |->
             [batch[k] EXCEPT
                !.ai_summary = Some(Summary(batch[k].message, k - 1, outcome.lines))]]

\* the call and its argument
InitEnrich ==
    /\ \E n \in 0..MaxEnrichCommits :
         enrich = [pc |-> "call",
                   commits |-> [k \in 1..n |-> [message |-> MessageAt(k), ai_summary |-> None]],
                   i |-> 0, enriched |-> <<>>, outcomes |-> <<>>]
    /\ idm = IdleIdm
    /\ fetch = IdleFetch
    /\ file = IdleFile
    /\ tool = IdleTool
    /\ run = IdleRun

\* line 65: nothing to enrich
EnrichNothing ==
    /\ enrich.pc = "call"
    /\ enrich.commits = <<>>
    /\ enrich' = [enrich EXCEPT !.pc = "done"]
    /\ UNCHANGED <<idm, fetch, file, tool, run>>

\* lines 66-71: the loop is entered
EnrichBegin ==
    /\ enrich.pc = "call"
    /\ enrich.commits # <<>>
    /\ enrich' = [enrich EXCEPT !.pc = "loop"]
    /\ UNCHANGED <<idm, fetch, file, tool, run>>

Min(a, b) == IF a <= b THEN a ELSE b

\* lines 72-88: one pass of the loop, commits[i:i+batch_size]
EnrichBatch ==
    /\ enrich.pc = "loop"
    /\ enrich.i < Len(enrich.commits)
    /\ LET last == Min(enrich.i + batch_size, Len(enrich.commits))
           batch == SubSeq(enrich.commits, enrich.i + 1, last)
       IN  \E outcome \in Outcomes(Len(batch)) :
             enrich' = [enrich EXCEPT
                          !.i = @ + batch_size,
                          !.enriched = @ \o EnrichedBatch(batch, outcome),
                          !.outcomes = Append(@, outcome)]
    /\ UNCHANGED <<idm, fetch, file, tool, run>>

\* line 89
EnrichReturn ==
    /\ enrich.pc = "loop"
    /\ enrich.i >= Len(enrich.commits)
    /\ enrich' = [enrich EXCEPT !.pc = "done"]
    /\ UNCHANGED <<idm, fetch, file, tool, run>>

NextEnrich ==
    \/ EnrichNothing
    \/ EnrichBegin
    \/ EnrichBatch
    \/ EnrichReturn

SpecEnrich == InitEnrich /\ [][NextEnrich]_vars

(***************************************************************************)
(* C7: whatever the text generator does for each batch of 20, the returned *)
(* list has the length and the order of the argument, every commit in it   *)
(* has an ai_summary, and a commit at position idx of its batch whose      *)
(* batch was answered with idx or fewer lines (or with an exception) keeps *)
(* its original message as ai_summary.                                     *)
(***************************************************************************)
C7_EnrichKeepsEveryCommit ==
    enrich.pc = "done" =>
        /\ Len(enrich.enriched) = Len(enrich.commits)
        /\ \A k \in 1..Len(enrich.enriched) :
              /\ enrich.enriched[k].message = enrich.commits[k].message
              /\ enrich.enriched[k].ai_summary.present
              /\ LET batchNo == ((k - 1) \div batch_size) + 1
                     idx == (k - 1) % batch_size
                 IN  (\/ enrich.outcomes[batchNo].raised
                      \/ Len(enrich.outcomes[batchNo].lines) <= idx)
                     => enrich.enriched[k].ai_summary = Some(enrich.commits[k].message)

\* two lines for a batch of three or more: the first commit is rewritten,
\* the third keeps its message; and a second batch was needed
C7_Witness ==
    /\ enrich.pc = "done"
    /\ Len(enrich.commits) > batch_size
    /\ ~enrich.outcomes[1].raised
    /\ Len(enrich.outcomes[1].lines) = 2
    /\ enrich.enriched[1].ai_summary = Some(<<"D", "o", "n", "e", " ", "1">>)
    /\ enrich.enriched[3].ai_summary = Some(MessageAt(3))
    /\ Len(enrich.outcomes) = 2


(***************************************************************************)
(* The workbook (excel_server.py).                                         *)
(*                                                                         *)
(* file.gh is the sheet GitHub_Activity: absent, the one-row table         *)
(* {"Status": "No Data"} written for zero commits, or the commit table.    *)
(* file.jira is the sheet Jira_Activity and file.final the sheet           *)
(* Final_Timesheet.  A date cell is a day number: the texts the code       *)
(* stores are strftime('%Y-%m-%d') of a date and are read back with        *)
(* pd.to_datetime, which gives the same day.  Time Spent is in whole       *)
(* hours.  Columns no tool reads back (author, sha) and the constant       *)
(* columns of the timesheet are left out.                                  *)
(***************************************************************************)
NoFile == [exists |-> FALSE, gh |-> [kind |-> "absent", rows |-> <<>>, repo |-> FALSE],
           jira |-> [kind |-> "absent", rows |-> <<>>],
           final |-> [kind |-> "absent", rows |-> <<>>]]

\* texts the code writes
InternalDevelopment == <<"I", "n", "t", "e", "r", "n", "a", "l", " ", "D", "e", "v", "e", "l", "o", "p", "m", "e", "n", "t">>
GeneralDevelopment == <<"G", "e", "n", "e", "r", "a", "l", " ", "D", "e", "v", "e", "l", "o", "p", "m", "e", "n", "t">>
CodeImplementation == <<"C", "o", "d", "e", " ", "I", "m", "p", "l", "e", "m", "e", "n", "t", "a", "t", "i", "o", "n", ":", " ">>
Ellipsis == <<".", ".", ".">>
Performed == <<"P", "e", "r", "f", "o", "r", "m", "e", "d", " ">>
FullStop == <<".">>
CompletedAssignedTasks == <<"C", "o", "m", "p", "l", "e", "t", "e", "d", " ", "a", "s", "s", "i", "g", "n", "e", "d", " ", "t", "a", "s", "k", "s", ".">>

MaxTaskChars == 50

\* s[:n]
Take(t, n) == SubSeq(t, 1, Min(n, Len(t)))

\* the positions of the sequence whose element satisfies Test, in order
Positions(q, Test(_)) == SelectSeq([i \in 1..Len(q) |-> i], LAMBDA i : Test(q[i]))

\* the rows of q that satisfy Test, in order
Filter(q, Test(_)) == SelectSeq(q, Test)

RECURSIVE AscendingFrom(_, _, _)
\* the positions of the day numbers in days, by ascending day from lo to hi,
\* equal days in their stored order
AscendingFrom(days, lo, hi) ==
    IF lo > hi THEN <<>>
    ELSE Positions(days, LAMBDA d : d = lo) \o AscendingFrom(days, lo + 1, hi)

RECURSIVE DescendingFrom(_, _, _)
\* the same by descending day from hi to lo
DescendingFrom(days, hi, lo) ==
    IF hi < lo THEN <<>>
    ELSE Positions(days, LAMBDA d : d = hi) \o DescendingFrom(days, hi - 1, lo)

Range(q) == {q[i] : i \in 1..Len(q)}
MinOf(S) == CHOOSE x \in S : \A y \in S : x <= y
MaxOf(S) == CHOOSE x \in S : \A y \in S : x >= y

\* DataFrame.sort_values(column) on rows whose day numbers are days
SortValues(rows, days) ==
    IF rows = <<>> THEN <<>>
    ELSE LET order == AscendingFrom(days, MinOf(Range(days)), MaxOf(Range(days)))
         IN  [k \in 1..Len(rows) |-> rows[order[k]]]

\* DataFrame.sort_values(column, ascending=False)
SortValuesDescending(rows, days) ==
    IF rows = <<>> THEN <<>>
    ELSE LET order == DescendingFrom(days, MaxOf(Range(days)), MinOf(Range(days)))
         IN  [k \in 1..Len(rows) |-> rows[order[k]]]

\* DataFrame.head(n)
Head3(rows) == Take(rows, 3)


DescChars == 200

\* the sheet GitHub_Activity for a non-empty commit list (lines 12-19, 26):
\* the repo column exists when a commit carries a repo, ai_summary is added
\* as "" when no commit carries one
GithubTable(user_commits) ==
    [kind |-> "table",
     rows |-> [k \in 1..Len(user_commits) |->
                  [date |-> user_commits[k].date,
                   repo |-> user_commits[k].repo.text,
                   message |-> user_commits[k].message,
                   ai_summary |-> user_commits[k].ai_summary.text]],
     repo |-> \E k \in 1..Len(user_commits) : user_commits[k].repo.present]

\* the sheet written for an empty list (line 28): one row, no date column
NoDataTable == [kind |-> "nodata", rows |-> <<>>, repo |-> FALSE]

\* save_github_data_to_excel (lines 10-31); ok: the writer could open and
\* write the file.  The file is created afresh, so it holds this sheet only.
SaveGithub(f, user_commits, ok) ==
    IF ~ok
    THEN [file |-> f, ret |-> "Error"]
    ELSE [file |-> [exists |-> TRUE,
                    gh |-> IF user_commits = <<>> THEN NoDataTable
                           ELSE GithubTable(user_commits),
                    jira |-> NoFile.jira,
                    final |-> NoFile.final],
          ret |-> "path"]

\* key.split('-')[0]
BeforeDash(key) ==
    LET hits == {i \in 1..Len(key) : key[i] = "-"}
    IN  IF hits = {} THEN key ELSE SubSeq(key, 1, MinOf(hits) - 1)

\* lines 40-54: the rows of one issue that has worklogs
IssueRows(issue) ==
    [k \in 1..Len(issue.worklogs) |->
        [Date |-> issue.worklogs[k].date,
         Key |-> issue.key,
         Project |-> IF issue.project_name # <<>> THEN issue.project_name
                     ELSE BeforeDash(issue.key),
         Summary |-> issue.summary,
         Description |-> issue.description,
         TimeSpent |-> issue.worklogs[k].time_spent]]

RECURSIVE JiraRows(_)
\* lines 38-63 when every issue has worklogs
JiraRows(jira_data) ==
    IF jira_data = <<>> THEN <<>>
    ELSE IssueRows(Head(jira_data)) \o JiraRows(Tail(jira_data))

\* save_jira_data_to_excel (lines 34-73).  An issue without worklogs is
\* read at issue["last_updated"], a key fetch_jira_issues never sets: the
\* call raises KeyError.  The sheet is appended to an existing file.
SaveJira(f, jira_data, ok) ==
    IF jira_data = <<>>
    THEN [file |-> f, ret |-> "No Jira data."]
    ELSE IF \E k \in 1..Len(jira_data) : jira_data[k].worklogs = <<>>
    THEN [file |-> f, ret |-> "raised"]
    ELSE IF ~f.exists \/ ~ok
    THEN [file |-> f, ret |-> "Error"]
    ELSE [file |-> [f EXCEPT !.jira = [kind |-> "table", rows |-> JiraRows(jira_data)]],
          ret |-> "path"]

\* the day numbers of a column
DatesOf(rows) == [k \in 1..Len(rows) |-> rows[k].date]
JiraDatesOf(rows) == [k \in 1..Len(rows) |-> rows[k].Date]

\* get_data_date_range with both reads in one try: a GitHub sheet that
\* cannot be read ends the collection of dates
GetDataDateRangeOneTry(f) ==
    IF ~f.exists
    THEN [ret |-> "Error: File not found", lo |-> 0, hi |-> 0]
    ELSE LET all_dates ==
                 IF f.gh.kind # "table" THEN {}
                 ELSE Range(DatesOf(f.gh.rows))
                      \cup (IF f.jira.kind = "table" THEN Range(JiraDatesOf(f.jira.rows))
                            ELSE {})
         IN  IF all_dates = {}
             THEN [ret |-> "No date data available", lo |-> 0, hi |-> 0]
             ELSE [ret |-> "range", lo |-> MinOf(all_dates), hi |-> MaxOf(all_dates)]

\* get_data_date_range (lines 76-89)
GetDataDateRange(f) ==
    IF ~f.exists
    THEN [ret |-> "Error: File not found", lo |-> 0, hi |-> 0]
    ELSE LET all_dates ==
                 (IF f.gh.kind = "table" THEN Range(DatesOf(f.gh.rows)) ELSE {})
                 \cup (IF f.jira.kind = "table" THEN Range(JiraDatesOf(f.jira.rows)) ELSE {})
         IN  IF all_dates = {}
             THEN [ret |-> "No date data available", lo |-> 0, hi |-> 0]
             ELSE [ret |-> "range", lo |-> MinOf(all_dates), hi |-> MaxOf(all_dates)]

\* lines 105: the columns date, repo, ai_summary
GitColumns(rows) ==
    [k \in 1..Len(rows) |->
        [date |-> rows[k].date, repo |-> rows[k].repo, ai_summary |-> rows[k].ai_summary]]

\* lines 119-121 and 127-129: the Jira columns, the description cut to 200
JiraColumns(rows) ==
    [k \in 1..Len(rows) |->
        [Date |-> rows[k].Date, Project |-> rows[k].Project, Key |-> rows[k].Key,
         Summary |-> rows[k].Summary,
         Description |-> Take(rows[k].Description, DescChars)]]

\* lines 123-129: the last 3 rows of the whole sheet by date
PastRows(rows) ==
    JiraColumns(Head3(SortValuesDescending(rows, JiraDatesOf(rows))))

\* read_unified_date_range (lines 92-132): the text returned, as its parts.
\* Each half runs in its own try; a KeyError ends the half where it stands.
ReadUnifiedDateRange(f, start_date, end_date) ==
    LET git_filtered ==
            IF f.exists /\ f.gh.kind = "table"
            THEN LET hit == Filter(f.gh.rows,
                                   LAMBDA r : r.date >= start_date /\ r.date <= end_date)
                 IN  SortValues(hit, DatesOf(hit))
            ELSE <<>>
        jira_filtered ==
            IF f.exists /\ f.jira.kind = "table"
            THEN LET hit == Filter(f.jira.rows,
                                   LAMBDA r : r.Date >= start_date /\ r.Date <= end_date)
                 IN  SortValues(hit, JiraDatesOf(hit))
            ELSE <<>>
        past == IF f.exists /\ f.jira.kind = "table" /\ jira_filtered = <<>>
                THEN PastRows(f.jira.rows)
                ELSE <<>>
    IN  [git_heading |-> git_filtered # <<>>,
         git_rows |-> IF f.gh.repo THEN GitColumns(git_filtered) ELSE <<>>,
         jira_heading |-> jira_filtered # <<>>,
         jira_rows |-> JiraColumns(jira_filtered),
         past_heading |-> past # <<>>,
         past_rows |-> past]


\* sum of the Time Spent column
RECURSIVE SumTimeSpent(_)
SumTimeSpent(rows) ==
    IF rows = <<>> THEN 0 ELSE Head(rows).TimeSpent + SumTimeSpent(Tail(rows))

\* what the text generator wrote for a date (reporter_node, lines 228-235)
AiDescription(d) == <<"W", "o", "r", "k", " ">> \o NumText(d)
AiRemarks(d) == <<"V", "a", "l", "u", "e", " ">> \o NumText(d)

\* line 179: the target dates
TargetDates(start_date, num_days) == [i \in 1..num_days |-> start_date + (i - 1)]

\* lines 185-186: the rows of the day
GhDay(f, d) == IF f.gh.kind = "table" THEN Filter(f.gh.rows, LAMBDA r : r.date = d) ELSE <<>>
JrDay(f, d) == IF f.jira.kind = "table" THEN Filter(f.jira.rows, LAMBDA r : r.Date = d) ELSE <<>>

\* line 206
TaskFromMessage(msg) == CodeImplementation \o Take(msg, MaxTaskChars) \o Ellipsis

\* lines 191-206 with the commit branch tested first
BasisGithubFirst(f, d) ==
    LET gh_day == GhDay(f, d)
        jr_day == JrDay(f, d)
    IN  IF gh_day # <<>>
        THEN [project |-> InternalDevelopment,
              task_summary |-> TaskFromMessage(gh_day[1].message),
              jira_hours |-> 0]
        ELSE IF jr_day # <<>>
        THEN [project |-> jr_day[1].Project,
              task_summary |-> jr_day[1].Summary,
              jira_hours |-> SumTimeSpent(jr_day)]
        ELSE [project |-> InternalDevelopment,
              task_summary |-> GeneralDevelopment,
              jira_hours |-> 0]

\* lines 191-206: project, task and hours of the day
Basis(f, d) ==
    LET gh_day == GhDay(f, d)
        jr_day == JrDay(f, d)
    IN  IF jr_day # <<>>
        THEN [project |-> jr_day[1].Project,
              task_summary |-> jr_day[1].Summary,
              jira_hours |-> SumTimeSpent(jr_day)]
        ELSE IF gh_day # <<>>
        THEN [project |-> InternalDevelopment,
              task_summary |-> TaskFromMessage(gh_day[1].message),
              jira_hours |-> 0]
        ELSE [project |-> InternalDevelopment,
              task_summary |-> GeneralDevelopment,
              jira_hours |-> 0]

\* lines 210-231: the row of the day; ai_dates are the keys of the parsed
\* enrichment JSON
FinalRow(f, ai_dates, employee_id, employee_name, d) ==
    LET basis == Basis(f, d)
    IN  [Employee |-> employee_id,
         EmployeeName |-> employee_name,
         Date |-> d,
         Project |-> basis.project,
         Task |-> basis.task_summary,
         TaskDescription |-> IF d \in ai_dates THEN AiDescription(d)
                             ELSE Performed \o Lower(basis.task_summary) \o FullStop,
         Remarks |-> IF d \in ai_dates THEN AiRemarks(d) ELSE CompletedAssignedTasks,
         PlannedHours |-> basis.jira_hours]

\* the loop of lines 183-231 raises for day d: the No Data sheet has no date
\* column (line 185), or the first commit message of a day without Jira
\* rows is an empty cell, read back as NaN (line 206)
DayRaises(f, d) ==
    \/ f.gh.kind = "nodata"
    \/ /\ JrDay(f, d) = <<>>
       /\ GhDay(f, d) # <<>>
       /\ GhDay(f, d)[1].message = <<>>

\* generate_final_timesheet (lines 135-245); ok: the two writes succeed
GenerateFinalTimesheet(f, ai_dates, employee_id, employee_name, start_date, num_days, ok) ==
    LET target_dates == TargetDates(start_date, num_days)
    IN  IF \/ ~f.exists
           \/ \E i \in 1..Len(target_dates) : DayRaises(f, target_dates[i])
           \/ ~ok
        THEN [file |-> f, ret |-> "Error", rows |-> <<>>]
        ELSE LET final_rows ==
                     [i \in 1..Len(target_dates) |->
                         FinalRow(f, ai_dates, employee_id, employee_name, target_dates[i])]
             IN  [file |-> [f EXCEPT !.final = [kind |-> "table", rows |-> final_rows]],
                  ret |-> "path", rows |-> final_rows]


(***************************************************************************)
(* The graph github -> jira -> reporter (client.py 91-275).                *)
(*                                                                         *)
(* Every step takes its inputs from the sets of a record `in`: what the    *)
(* fetch tools return, what the text generator answers, what the user      *)
(* types, whether a write to disk succeeds.  The specifications below run  *)
(* the same steps over different input sets.                               *)
(***************************************************************************)
DefaultDays == 5

EmployeeId == <<"7">>
EmployeeName == <<"e", "m", "p">>

\* the user_commits of a fetch result: the commit at position k carries the
\* message "fix k" (an empty message when blank holds, for the first one),
\* no ai_summary yet, and a repo when the fetch tool reports one
CommitList(dates, blank, repo) ==
    [k \in 1..Len(dates) |->
        [date |-> dates[k],
         message |-> IF blank /\ k = 1 THEN <<>> ELSE MessageAt(k),
         ai_summary |-> None,
         repo |-> IF repo THEN Some(<<"r">>) ELSE None]]

\* the sequences over S of length at most n
SeqsUpTo(S, n) == UNION {[1..k -> S] : k \in 0..n}

\* the two issues of the tracker: one of the project "Internal Development"
\* with the summary "General Development", one of a project without name
\* whose key is SP-2
GenericIssue(worklogs) ==
    [key |-> <<"I", "D", "-", "1">>, project_name |-> InternalDevelopment,
     summary |-> GeneralDevelopment, description |-> <<"d">>,
     total_spent |-> 0, worklogs |-> worklogs]

LoginIssue(worklogs) ==
    [key |-> <<"S", "P", "-", "2">>, project_name |-> <<>>,
     summary |-> <<"F", "i", "x", " ", "l", "o", "g", "i", "n">>,
     description |-> <<>>, total_spent |-> 0, worklogs |-> worklogs]

\* jira_server.py 31-36: the worklogs of an issue
Worklogs(dates, hours) == [date : dates, time_spent : hours]

\* the lists of at most two issues, each with worklogs from W
IssueLists(W) ==
    LET issues == {GenericIssue(w) : w \in W} \cup {LoginIssue(w) : w \in W}
    IN  SeqsUpTo(issues, 2)

\* what the user types for the number of days: nothing, digits, or a text
\* str.isdigit() rejects (a sign, letters)
Typed(kind, value) == [kind |-> kind, value |-> value]

\* what the user types for the start date: a YYYY-MM-DD date, or a text
\* strptime rejects
StartDate(day) == [valid |-> TRUE, day |-> day]
Malformed == [valid |-> FALSE, day |-> 0]

\* the empty text read_unified_date_range starts from (line 93)
NoContext == [git_heading |-> FALSE, git_rows |-> <<>>,
              jira_heading |-> FALSE, jira_rows |-> <<>>,
              past_heading |-> FALSE, past_rows |-> <<>>]

\* line 185
NumDays(days_input) ==
    IF days_input.kind = "digits" THEN days_input.value ELSE DefaultDays

\* lines 224-235: the dates of the answer's lines that split into 3 parts
EnrichmentDates(raw_lines) ==
    {raw_lines[k].date : k \in {j \in 1..Len(raw_lines) : raw_lines[j].parts >= 3}}

\* the answers of the text generator to the reporter's prompt: no usable
\* line, one line of two parts per date, or one well-formed line per date
Answers(target_dates, kinds) ==
    {[k \in 1..Len(target_dates) |-> [date |-> target_dates[k], parts |-> n]] :
        n \in kinds}

InitRun ==
    /\ run = [pc |-> "github_fetch",
              gh_fetch |-> "none", user_commits |-> <<>>,
              jira_project |-> FALSE, jira_fetch |-> "none", jira_issues |-> <<>>,
              excel_file_path |-> "none",
              range |-> [ret |-> "none", lo |-> 0, hi |-> 0],
              start_input |-> Malformed, days_input |-> Typed("blank", 0), num_days |-> 0,
              context |-> NoContext, ai_dates |-> {}, disk |-> TRUE, failure |-> "none",
              final_timesheet |-> "none"]
    /\ file = NoFile
    /\ tool = IdleTool
    /\ idm = IdleIdm
    /\ fetch = IdleFetch
    /\ enrich = IdleEnrich

\* github_node, lines 106-111: the fetch tool answers {"error": ...} or a
\* data package
GithubFetch(in) ==
    /\ run.pc = "github_fetch"
    /\ \/ /\ TRUE \in in.fetchFails
          /\ run' = [run EXCEPT !.pc = "github_enrich", !.gh_fetch = "error"]
       \/ \E commits \in in.commitLists :
            run' = [run EXCEPT !.pc = "github_enrich", !.gh_fetch = "ok",
                               !.user_commits = commits]
    /\ UNCHANGED <<idm, fetch, enrich, file, tool>>

\* github_node, lines 112-116: the commits found are enriched (they fit in
\* one batch here)
GithubEnrich(in) ==
    /\ run.pc = "github_enrich"
    /\ Len(run.user_commits) <= batch_size
    /\ IF Len(run.user_commits) > 0
       THEN \E outcome \in OutcomesOf(Len(run.user_commits), in.lineKinds) :
              run' = [run EXCEPT !.pc = "github_save",
                        !.user_commits = EnrichedBatch(run.user_commits, outcome)]
       ELSE run' = [run EXCEPT !.pc = "github_save"]
    /\ UNCHANGED <<idm, fetch, enrich, file, tool>>

\* github_node, lines 118-124
GithubSave(in) ==
    /\ run.pc = "github_save"
    /\ \E ok \in in.diskOk :
         LET res == SaveGithub(file, run.user_commits, ok)
         IN  /\ file' = res.file
             /\ tool' = [name |-> "save_github_data_to_excel", ret |-> res.ret]
             /\ run' = [run EXCEPT !.pc = "jira_fetch", !.excel_file_path = res.ret,
                                   !.user_commits = <<>>, !.disk = @ /\ ok]
    /\ UNCHANGED <<idm, fetch, enrich>>

\* jira_node, lines 128-146: no project key ends the node; else the fetch
\* tool answers {"error": ...} or the issues
JiraFetch(in) ==
    /\ run.pc = "jira_fetch"
    /\ \/ /\ FALSE \in in.jiraProject
          /\ run' = [run EXCEPT !.pc = "reporter", !.jira_fetch = "skipped"]
       \/ /\ TRUE \in in.jiraProject
          /\ TRUE \in in.fetchFails
          /\ run' = [run EXCEPT !.pc = "jira_save", !.jira_project = TRUE,
                                !.jira_fetch = "error"]
       \/ /\ TRUE \in in.jiraProject
          /\ \E issues \in in.issueLists :
               run' = [run EXCEPT !.pc = "jira_save", !.jira_project = TRUE,
                                  !.jira_fetch = "ok", !.jira_issues = issues]
    /\ UNCHANGED <<idm, fetch, enrich, file, tool>>

\* jira_node, lines 148-154: the issues are saved to the file named by the
\* path of github_node (when that path is an error text, no such file
\* exists); the tool's answer is not read
JiraSave(in) ==
    /\ run.pc = "jira_save"
    /\ IF run.jira_issues # <<>> /\ run.excel_file_path # "none"
       THEN \E ok \in in.diskOk :
              LET res == SaveJira(IF run.excel_file_path = "path" THEN file ELSE NoFile,
                                  run.jira_issues, ok)
              IN  /\ file' = IF run.excel_file_path = "path" THEN res.file ELSE file
                  /\ tool' = [name |-> "save_jira_data_to_excel", ret |-> res.ret]
                  /\ run' = [run EXCEPT !.pc = "reporter", !.jira_issues = <<>>,
                                        !.disk = @ /\ ok]
       ELSE /\ run' = [run EXCEPT !.pc = "reporter", !.jira_issues = <<>>]
            /\ UNCHANGED <<file, tool>>
    /\ UNCHANGED <<idm, fetch, enrich>>

\* reporter_node, lines 160-176
ReporterStart ==
    /\ run.pc = "reporter"
    /\ IF run.excel_file_path # "path" \/ ~file.exists
       THEN /\ run' = [run EXCEPT !.pc = "done", !.failure = "path",
                                   !.final_timesheet = "Failed."]
            /\ UNCHANGED tool
       ELSE LET res == GetDataDateRange(file)
            IN  /\ tool' = [name |-> "get_data_date_range", ret |-> res.ret]
                /\ run' = [run EXCEPT !.pc = "reporter_input", !.range = res]
    /\ UNCHANGED <<idm, fetch, enrich, file>>

\* reporter_node, lines 181-190 and 260-264: the inputs are read; strptime
\* raises on a start date that is no YYYY-MM-DD date
ReporterInput(in) ==
    /\ run.pc = "reporter_input"
    /\ \E start_input \in in.starts, days_input \in in.days :
         IF start_input.valid
         THEN run' = [run EXCEPT !.pc = "reporter_read",
                                 !.start_input = start_input,
                                 !.days_input = days_input,
                                 !.num_days = NumDays(days_input)]
         ELSE run' = [run EXCEPT !.pc = "done",
                                 !.start_input = start_input,
                                 !.days_input = days_input,
                                 !.num_days = NumDays(days_input),
                                 !.failure = "input",
                                 !.final_timesheet = "Failed."]
    /\ UNCHANGED <<idm, fetch, enrich, file, tool>>

\* reporter_node, lines 193-197
ReporterRead ==
    /\ run.pc = "reporter_read"
    /\ LET start_dt == run.start_input.day
           end_dt == start_dt + (run.num_days - 1)
           res == ReadUnifiedDateRange(file, start_dt, end_dt)
       IN  /\ tool' = [name |-> "read_unified_date_range", ret |-> "text"]
           /\ run' = [run EXCEPT !.pc = "reporter_llm", !.context = res]
    /\ UNCHANGED <<idm, fetch, enrich, file>>

\* reporter_node, lines 199-238 and 260-264: the text generator answers or
\* raises
ReporterSynthesize(in) ==
    /\ run.pc = "reporter_llm"
    /\ \/ /\ TRUE \in in.llmFails
          /\ run' = [run EXCEPT !.pc = "done", !.failure = "llm",
                                !.final_timesheet = "Failed."]
       \/ \E raw_lines \in Answers(TargetDates(run.start_input.day, run.num_days),
                                   in.answerParts) :
            run' = [run EXCEPT !.pc = "reporter_generate",
                               !.ai_dates = EnrichmentDates(raw_lines)]
    /\ UNCHANGED <<idm, fetch, enrich, file, tool>>

\* reporter_node, lines 240-258
ReporterGenerate(in) ==
    /\ run.pc = "reporter_generate"
    /\ \E ok \in in.diskOk :
         LET res == GenerateFinalTimesheet(file, run.ai_dates, EmployeeId, EmployeeName,
                                           run.start_input.day, run.num_days, ok)
         IN  /\ file' = res.file
             /\ tool' = [name |-> "generate_final_timesheet", ret |-> res.ret,
                         rows |-> res.rows]
             /\ run' = [run EXCEPT !.pc = "done", !.disk = @ /\ ok,
                          !.failure = IF res.ret = "Error" THEN "generate" ELSE "none",
                          !.final_timesheet = IF res.ret = "Error" THEN "Failed."
                                              ELSE "path"]
    /\ UNCHANGED <<idm, fetch, enrich>>

\* build_graph, lines 266-275
Graph(in) ==
    \/ GithubFetch(in)
    \/ GithubEnrich(in)
    \/ GithubSave(in)
    \/ JiraFetch(in)
    \/ JiraSave(in)
    \/ ReporterStart
    \/ ReporterInput(in)
    \/ ReporterRead
    \/ ReporterSynthesize(in)
    \/ ReporterGenerate(in)


(***************************************************************************)
(* The input sets.                                                         *)
(***************************************************************************)
\* every failure the run can meet, over little data
RunInputs ==
    [fetchFails |-> BOOLEAN,
     commitLists |-> {CommitList(d, FALSE, FALSE) : d \in SeqsUpTo(1..MaxDate, 1)},
     lineKinds |-> {"sentence"},
     diskOk |-> BOOLEAN,
     jiraProject |-> BOOLEAN,
     issueLists |-> IssueLists({<<>>} \cup {<<w>> : w \in Worklogs(1..MaxDate, {1})}),
     starts |-> {Malformed} \cup {StartDate(d) : d \in 1..MaxDate},
     days |-> {Typed("blank", 0), Typed("signed", 0 - 3), Typed("word", 0)}
              \cup {Typed("digits", n) : n \in 0..MaxDays},
     llmFails |-> BOOLEAN,
     answerParts |-> {2, 3}]

\* every table the two save tools can write, with no failure
SheetInputs ==
    [fetchFails |-> {FALSE},
     commitLists |-> {CommitList(d, blank, FALSE) :
                         d \in SeqsUpTo(1..MaxDate, MaxCommits), blank \in BOOLEAN},
     lineKinds |-> {},
     diskOk |-> {TRUE},
     jiraProject |-> BOOLEAN,
     issueLists |-> IssueLists({<<w>> : w \in Worklogs(1..MaxDate, {0, 1})}),
     starts |-> {StartDate(d) : d \in 1..MaxDate},
     days |-> {Typed("digits", n) : n \in 1..MaxDays},
     llmFails |-> {FALSE},
     answerParts |-> {2, 3}]

\* one issue with up to MaxWorklogs worklogs on any dates, over few commits
ReadInputs ==
    [fetchFails |-> {FALSE},
     commitLists |-> {<<>>, CommitList(<<1>>, FALSE, FALSE), CommitList(<<1, 2>>, FALSE, TRUE)},
     lineKinds |-> {},
     diskOk |-> {TRUE},
     jiraProject |-> {TRUE},
     issueLists |-> {<<LoginIssue(w)>> :
                        w \in SeqsUpTo(Worklogs(1..MaxReadDate, {1}), MaxWorklogs)},
     starts |-> {StartDate(d) : d \in 1..MaxReadDate},
     days |-> {Typed("digits", n) : n \in 1..MaxDays},
     llmFails |-> {FALSE},
     answerParts |-> {3}]

Next == Graph(RunInputs)
Spec == InitRun /\ [][Next]_vars

NextSheet == Graph(SheetInputs)
SpecSheet == InitRun /\ [][NextSheet]_vars

NextRead == Graph(ReadInputs)
SpecRead == InitRun /\ [][NextRead]_vars


(***************************************************************************)
(* The excel-server on its own (excel_server.py 7-245): an MCP server      *)
(* whose tools a client calls in any order on the workbook of one file     *)
(* name.  tool holds the name of the last call, its answer and, for the    *)
(* tools that write, the workbook as it was before the call.               *)
(***************************************************************************)
\* the commit lists a client saves: at most two commits, with or without a
\* repo
BookCommitLists ==
    {CommitList(d, FALSE, repo) : d \in SeqsUpTo(1..MaxDate, 2), repo \in BOOLEAN}

\* the issue lists a client saves: none, or one issue with at most two
\* worklogs
BookIssueLists ==
    {<<>>} \cup {<<LoginIssue(w)>> : w \in SeqsUpTo(Worklogs(1..MaxDate, {1}), 2)}

InitBook ==
    /\ file = NoFile
    /\ tool = IdleTool
    /\ run = IdleRun
    /\ idm = IdleIdm
    /\ fetch = IdleFetch
    /\ enrich = IdleEnrich

\* a call of save_github_data_to_excel
BookSaveGithub ==
    /\ \E user_commits \in BookCommitLists, ok \in BOOLEAN :
         LET res == SaveGithub(file, user_commits, ok)
         IN  /\ file' = res.file
             /\ tool' = [name |-> "save_github_data_to_excel", ret |-> res.ret,
                         before |-> file]
    /\ UNCHANGED <<idm, fetch, enrich, run>>

\* a call of save_jira_data_to_excel
BookSaveJira ==
    /\ \E jira_data \in BookIssueLists, ok \in BOOLEAN :
         LET res == SaveJira(file, jira_data, ok)
         IN  /\ file' = res.file
             /\ tool' = [name |-> "save_jira_data_to_excel", ret |-> res.ret,
                         before |-> file]
    /\ UNCHANGED <<idm, fetch, enrich, run>>

\* a call of get_data_date_range
BookGetRange ==
    /\ tool' = [name |-> "get_data_date_range", range |-> GetDataDateRange(file)]
    /\ UNCHANGED <<idm, fetch, enrich, run, file>>

\* a call of read_unified_date_range
BookRead ==
    /\ \E start_date \in 1..MaxDate, end_date \in 1..MaxDate :
         /\ start_date <= end_date
         /\ tool' = [name |-> "read_unified_date_range",
                     text |-> ReadUnifiedDateRange(file, start_date, end_date)]
    /\ UNCHANGED <<idm, fetch, enrich, run, file>>

\* a call of generate_final_timesheet for one day, with no enrichment
BookGenerate ==
    /\ \E start_date \in 1..MaxDate :
         LET res == GenerateFinalTimesheet(file, {}, EmployeeId, EmployeeName,
                                           start_date, 1, TRUE)
         IN  /\ file' = res.file
             /\ tool' = [name |-> "generate_final_timesheet", ret |-> res.ret,
                         before |-> file]
    /\ UNCHANGED <<idm, fetch, enrich, run>>

NextBook ==
    \/ BookSaveGithub
    \/ BookSaveJira
    \/ BookGetRange
    \/ BookRead
    \/ BookGenerate

SpecBook == InitBook /\ [][NextBook]_vars


\* the generate_final_timesheet call of the run has returned
Generated == run.pc = "done" /\ tool.name = "generate_final_timesheet"

\* the positions of the Jira rows and of the commit rows stored for day d
JiraAt(d) == {k \in 1..Len(file.jira.rows) : file.jira.rows[k].Date = d}
CommitsAt(d) == {k \in 1..Len(file.gh.rows) : file.gh.rows[k].date = d}

RECURSIVE HoursOver(_)
\* the Time Spent of the Jira rows at the positions K, added up
HoursOver(K) ==
    IF K = {} THEN 0
    ELSE LET k == MinOf(K) IN file.jira.rows[k].TimeSpent + HoursOver(K \ {k})

(***************************************************************************)
(* C1 as claimed: for every start date, every day count n >= 1 and every   *)
(* workbook the two save tools can leave behind, generate_final_timesheet  *)
(* emits exactly n rows, one per date start, ..., start+n-1, in order.     *)
(***************************************************************************)
C1_OneRowPerTargetDate ==
    (Generated /\ run.num_days >= 1) =>
        /\ Len(tool.rows) = run.num_days
        /\ \A i \in 1..Len(tool.rows) : tool.rows[i].Date = run.start_input.day + (i - 1)

(***************************************************************************)
(* C5: in the rows generate_final_timesheet emits, the row of date d takes *)
(* Project and Task from the first Jira row dated d and the sum of Time    *)
(* Spent over all Jira rows dated d as Planned Hours when such a row       *)
(* exists, whether or not commits are dated d; otherwise, when a commit is *)
(* dated d, its Task is derived from the first commit message of d and its *)
(* hours are 0; otherwise it carries the generic defaults.                 *)
(***************************************************************************)
C5_BasisByPriority ==
    Generated =>
        \A i \in 1..Len(tool.rows) :
            LET row == tool.rows[i]
                J == JiraAt(row.Date)
                G == CommitsAt(row.Date)
            IN  IF J # {}
                THEN /\ row.Project = file.jira.rows[MinOf(J)].Project
                     /\ row.Task = file.jira.rows[MinOf(J)].Summary
                     /\ row.PlannedHours = HoursOver(J)
                ELSE IF G # {}
                THEN /\ row.Task = CodeImplementation
                                   \o Take(file.gh.rows[MinOf(G)].message, MaxTaskChars)
                                   \o Ellipsis
                     /\ row.PlannedHours = 0
                ELSE /\ row.Project = InternalDevelopment
                     /\ row.Task = GeneralDevelopment
                     /\ row.PlannedHours = 0

\* a date with a commit and two Jira rows of different projects, one hour
\* each: the row follows the first Jira row and carries two hours
C5_Witness ==
    /\ Generated
    /\ Len(tool.rows) >= 1
    /\ LET d == tool.rows[1].Date
       IN  /\ CommitsAt(d) # {}
           /\ Cardinality(JiraAt(d)) = 2
           /\ file.jira.rows[MinOf(JiraAt(d))].Project # file.jira.rows[MaxOf(JiraAt(d))].Project
           /\ tool.rows[1].Project = <<"S", "P">>
           /\ tool.rows[1].PlannedHours = 2

\* the columns of a row other than its date
Unmarked(row) == [row EXCEPT !.Date = 0]

(***************************************************************************)
(* C6 as claimed: the emitted row alone tells whether its date was backed  *)
(* by an event: a row of a date with no event in either source and a row   *)
(* of a date with at least one event never agree in every column but the   *)
(* date.                                                                   *)
(***************************************************************************)
C6_InferredRowsAreMarked ==
    Generated =>
        \A i, j \in 1..Len(tool.rows) :
            (/\ JiraAt(tool.rows[i].Date) = {}
             /\ CommitsAt(tool.rows[i].Date) = {}
             /\ JiraAt(tool.rows[j].Date) \cup CommitsAt(tool.rows[j].Date) # {})
            => Unmarked(tool.rows[i]) # Unmarked(tool.rows[j])


\* the read_unified_date_range call of the run has returned
ReadBack == run.pc = "reporter_llm" /\ tool.name = "read_unified_date_range"

\* the window the reporter asked for
WindowStart == run.start_input.day
WindowEnd == run.start_input.day + (run.num_days - 1)

\* the positions of the stored Jira rows dated in the window, and before it
JiraInWindow ==
    {k \in 1..Len(file.jira.rows) :
        file.jira.rows[k].Date >= WindowStart /\ file.jira.rows[k].Date <= WindowEnd}
JiraBefore == {k \in 1..Len(file.jira.rows) : file.jira.rows[k].Date < WindowStart}

(***************************************************************************)
(* C8 as claimed: when no Jira row is dated in [start, end], the rows      *)
(* surfaced as fallback are rows dated strictly before start, the most     *)
(* recent of them and at most 3, and they stand under the context-only     *)
(* heading, never under the in-window Jira heading; when a Jira row is in  *)
(* the window, no fallback row is surfaced.                                *)
(***************************************************************************)
C8_FallbackOnlyBeforeWindow ==
    ReadBack =>
        IF JiraInWindow = {}
        THEN /\ ~run.context.jira_heading
             /\ run.context.jira_rows = <<>>
             /\ Len(run.context.past_rows) <= 3
             /\ run.context.past_heading <=> run.context.past_rows # <<>>
             /\ \A j \in 1..Len(run.context.past_rows) :
                   run.context.past_rows[j].Date < WindowStart
             /\ \A k \in JiraBefore :
                   Cardinality({j \in 1..Len(run.context.past_rows) :
                                   run.context.past_rows[j].Date >= file.jira.rows[k].Date})
                   >= Min(3, Cardinality({m \in JiraBefore :
                                   file.jira.rows[m].Date >= file.jira.rows[k].Date}))
        ELSE /\ ~run.context.past_heading
             /\ run.context.past_rows = <<>>



(***************************************************************************)
(* C9 as claimed: when the fetch of exactly one source returns a           *)
(* structured failure, and the inputs are valid, the text generator        *)
(* answers and every write succeeds, the run ends with a generated         *)
(* timesheet of n rows and not with "Failed.".                             *)
(***************************************************************************)
C9_SourceFailureIsNotFatal ==
    (/\ run.pc = "done"
     /\ (run.gh_fetch = "error") # (run.jira_fetch = "error")
     /\ run.disk
     /\ run.failure \notin {"input", "llm"}
     /\ run.start_input.valid
     /\ run.num_days >= 1)
    => /\ run.final_timesheet = "path"
       /\ file.final.kind = "table"
       /\ Len(file.final.rows) = run.num_days

(***************************************************************************)
(* C10 as claimed: once reporter_node has read its inputs, a start date    *)
(* that is no valid YYYY-MM-DD date, or a day count that is zero or        *)
(* negative, ends the run with final_timesheet "Failed." and without a     *)
(* Final_Timesheet sheet.                                                  *)
(***************************************************************************)
C10_BadInputIsTerminal ==
    (/\ run.pc = "done"
     /\ run.failure # "path"
     /\ \/ ~run.start_input.valid
        \/ (run.days_input.kind \in {"digits", "signed"} /\ run.days_input.value <= 0))
    => /\ run.final_timesheet = "Failed."
       /\ file.final.kind = "absent"


\* the get_data_date_range call of the run has returned
RangeAsked == run.pc = "reporter_input" /\ tool.name = "get_data_date_range"

\* the dates of the events stored in the two tables
EventDates ==
    {file.gh.rows[k].date : k \in 1..Len(file.gh.rows)}
    \cup {file.jira.rows[k].Date : k \in 1..Len(file.jira.rows)}

(***************************************************************************)
(* C11: get_data_date_range answers with the earliest and the latest date  *)
(* of the events stored in the GitHub and the Jira table together; with no *)
(* stored event it answers "No date data available"; a table that is       *)
(* absent or has no date column takes nothing from the range of the other. *)
(***************************************************************************)
C11_RangeOverBothSources ==
    RangeAsked =>
        IF EventDates = {}
        THEN run.range.ret = "No date data available"
        ELSE /\ run.range.ret = "range"
             /\ run.range.lo \in EventDates
             /\ run.range.hi \in EventDates
             /\ \A d \in EventDates : run.range.lo <= d /\ d <= run.range.hi

\* the GitHub sheet is the No Data sheet, without a date column, and the
\* Jira table holds rows dated 2 and 3: the range is 2 to 3
C11_Witness ==
    /\ RangeAsked
    /\ file.gh.kind = "nodata"
    /\ file.jira.kind = "table"
    /\ run.range.ret = "range"
    /\ run.range.lo = 2
    /\ run.range.hi = 3

\* the positions of the stored commit rows dated in the window
GitInWindow ==
    {k \in 1..Len(file.gh.rows) :
        file.gh.rows[k].date >= WindowStart /\ file.gh.rows[k].date <= WindowEnd}

(***************************************************************************)
(* C12 as claimed: the text reporter_node hands to the text generator      *)
(* holds, for each source, exactly the stored rows dated in [start, end],  *)
(* both ends included, in ascending date order: as many entries as stored  *)
(* rows in the window, every such row among them, none from outside.       *)
(***************************************************************************)
C12_InWindowRowsComplete ==
    ReadBack =>
        /\ Len(run.context.git_rows) = Cardinality(GitInWindow)
        /\ \A k \in GitInWindow :
              \E j \in 1..Len(run.context.git_rows) :
                  /\ run.context.git_rows[j].date = file.gh.rows[k].date
                  /\ run.context.git_rows[j].ai_summary = file.gh.rows[k].ai_summary
        /\ \A j \in 1..Len(run.context.git_rows) :
              /\ run.context.git_rows[j].date >= WindowStart
              /\ run.context.git_rows[j].date <= WindowEnd
              /\ j > 1 => run.context.git_rows[j - 1].date <= run.context.git_rows[j].date
        /\ Len(run.context.jira_rows) = Cardinality(JiraInWindow)
        /\ \A d \in WindowStart..WindowEnd :
              Cardinality({j \in 1..Len(run.context.jira_rows) :
                              run.context.jira_rows[j].Date = d})
              = Cardinality({k \in JiraInWindow : file.jira.rows[k].Date = d})
        /\ \A j \in 1..Len(run.context.jira_rows) :
              /\ run.context.jira_rows[j].Date >= WindowStart
              /\ run.context.jira_rows[j].Date <= WindowEnd
              /\ j > 1 => run.context.jira_rows[j - 1].Date <= run.context.jira_rows[j].Date

\* the dates of the in-window entries of the text, in the order they stand
\* in it
OutputDates ==
    [j \in 1..Len(run.context.git_rows) |-> run.context.git_rows[j].date]
    \o [j \in 1..Len(run.context.jira_rows) |-> run.context.jira_rows[j].Date]

(***************************************************************************)
(* C13 as claimed: the in-window entries of the text                      *)
(* read_unified_date_range returns, read from the first to the last across *)
(* both sources, are in ascending date order; every entry stands under the *)
(* heading of its source; a source whose table is absent or has no rows    *)
(* adds no entry and no heading.                                           *)
(***************************************************************************)
C13_OneSortedTaggedSequence ==
    ReadBack =>
        /\ \A j \in 2..Len(OutputDates) : OutputDates[j - 1] <= OutputDates[j]
        /\ run.context.git_rows # <<>> => run.context.git_heading
        /\ run.context.jira_rows # <<>> => run.context.jira_heading
        /\ run.context.past_rows # <<>> => run.context.past_heading
        /\ file.gh.kind # "table" =>
              (~run.context.git_heading /\ run.context.git_rows = <<>>)
        /\ file.jira.kind # "table" =>
              /\ ~run.context.jira_heading /\ run.context.jira_rows = <<>>
              /\ ~run.context.past_heading /\ run.context.past_rows = <<>>

(***************************************************************************)
(* C14 as claimed: a call of save_jira_data_to_excel leaves the GitHub     *)
(* table as it was, a call of save_github_data_to_excel leaves the Jira    *)
(* table as it was, whatever calls came before; and a read of a workbook   *)
(* without a Jira table answers with no Jira entry.                        *)
(***************************************************************************)
C14_WritesKeepTheOtherTable ==
    /\ tool.name = "save_jira_data_to_excel" => file.gh = tool.before.gh
    /\ tool.name = "save_github_data_to_excel" => file.jira = tool.before.jira
    /\ (tool.name = "read_unified_date_range" /\ file.jira.kind = "absent") =>
           (tool.text.jira_rows = <<>> /\ tool.text.past_rows = <<>>)
    /\ (tool.name = "get_data_date_range" /\ file.exists /\ file.jira.kind = "absent") =>
           tool.range.ret \in {"range", "No date data available"}

\* the place of a step in the order the claim gives: ingestion, enrichment
\* and store of the GitHub table; ingestion and store of the Jira table; in
\* the reporter the read-back, then the allocation of the rows, then the
\* narrative synthesis
ClaimedOrder(pc) ==
    CASE pc = "github_fetch"      -> 1
      [] pc = "github_enrich"     -> 2
      [] pc = "github_save"       -> 3
      [] pc = "jira_fetch"        -> 4
      [] pc = "jira_save"         -> 5
      [] pc = "reporter"          -> 6
      [] pc = "reporter_input"    -> 7
      [] pc = "reporter_read"     -> 8
      [] pc = "reporter_generate" -> 9
      [] pc = "reporter_llm"      -> 10
      [] OTHER                    -> 11

(***************************************************************************)
(* C18 as claimed: every step of a run moves forward in the order          *)
(* github_node (fetch, enrich, save), jira_node (fetch, save),             *)
(* reporter_node (read-back, allocation by generate_final_timesheet,       *)
(* narrative synthesis by the text generator): no step runs twice and none *)
(* starts before the one before it has ended.                              *)
(***************************************************************************)
C18_StagesInClaimedOrder ==
    [][ClaimedOrder(run'.pc) > ClaimedOrder(run.pc)]_vars

=============================================================================
